---- MODULE Spec2Model ----
(***************************************************************************)
(* MaaFrameworkUpdater (src/main.py): the patch engine apply_patch, the    *)
(* changelog walk generate_changelog and the path-prefix normalisation     *)
(* process_diff_content.                                                   *)
(*                                                                         *)
(* A file is a sequence of lines; a line is an atomic symbol that stands   *)
(* for the text with its terminator.  The parsed patch set is the          *)
(* structure apply_patch reads from the diff library: per file the         *)
(* attributes path, target_file, is_removed_file, is_rename,               *)
(* is_added_file, and the hunks with their numbered diff lines.            *)
(***************************************************************************)
EXTENDS Integers, Sequences, FiniteSets, TLC

VARIABLES
    \* ---- apply_patch ----
    fs,                 \* the file tree under base_dir: path -> file
    patchset,           \* PatchSet.from_string(patch_content)
    latest_version,     \* self.latest_version
    os_name,            \* platform of the run (os.rename differs)
    pc,                 \* position of apply_patch: ready / loop / done
    idx,                \* index of the next patched_file of the for loop
    result,             \* return value of apply_patch: none / True / False
    run,                \* number of calls of apply_patch started
    fs0,                \* history: the tree when the current call started
    failedAt,           \* history: index of the patched_file that raised
    expected,           \* history: target sequence the diff was made for
    \* ---- generate_changelog ----
    releases,           \* the release feed, newest first
    current_version,    \* self.current_version
    prerelease,         \* self.prerelease
    per_page,           \* parameter per_page
    page,               \* loop variable page
    changelogs,         \* local list changelogs
    start_flag,         \* local start_flag
    changelog,          \* return value of generate_changelog
    cl_pc,              \* position of generate_changelog: walk / done
    \* ---- process_diff_content ----
    diff_content,       \* the fetched diff text (characters)
    patch_file,         \* content of the written patch file
    diff_filename,      \* self.diff_filename
    diff_pc,            \* position of process_diff_content: ready / done
    diff_ok             \* return value of process_diff_content

applyVars == <<fs, patchset, latest_version, os_name, pc, idx, result, run,
               fs0, failedAt, expected>>
clVars    == <<releases, prerelease, per_page, page, changelogs,
               start_flag, changelog, cl_pc>>
diffVars  == <<diff_content, patch_file, diff_filename, diff_pc, diff_ok>>
vars      == <<applyVars, clVars, diffVars, current_version>>

(***************************************************************************)
(* Bounds                                                                  *)
(***************************************************************************)
MaxPatches == 2         \* patched files in a patch set
MaxOps == 4             \* diff lines of an edit script (round trip)
MaxRuns == 2            \* calls of apply_patch on the same patch set
MaxReleases == 3        \* releases in the feed
MaxPerPage == 2         \* values of the parameter per_page
LastPage == 2           \* pages requested by generate_changelog
MaxBody == 1            \* hunk body lines of a fetched diff
MaxSegs == 2            \* text segments of a path or a body line

(***************************************************************************)
(* Sequences                                                               *)
(***************************************************************************)
Reverse(s) == [i \in 1..Len(s) |-> s[Len(s) + 1 - i]]

RECURSIVE Flatten(_)
Flatten(ss) == IF ss = <<>> THEN <<>> ELSE Head(ss) \o Flatten(Tail(ss))

SeqsUpTo(S, n) == UNION {[1..k -> S] : k \in 0..n}

(***************************************************************************)
(* The file tree                                                           *)
(***************************************************************************)
Manifest == "interface.json"
Paths == {"f", "g", Manifest}
Versions == {"v1", "v2"}
Lines == {"a", "b"} \cup Versions

NoFile == [exists |-> FALSE, lines |-> <<>>]
File(ls) == [exists |-> TRUE, lines |-> ls]

\* os.path.exists
exists(tree, p) == tree[p].exists

\* os.remove
remove(tree, p) == [tree EXCEPT ![p] = NoFile]

\* os.rename of an existing src (dst is replaced)
rename_AsCopy(tree, src, dst) == [tree EXCEPT ![dst] = tree[src]]
rename(tree, src, dst) == [tree EXCEPT ![dst] = tree[src], ![src] = NoFile]

\* open(path, "w").write("")
create(tree, p) == [tree EXCEPT ![p] = File(<<>>)]

(***************************************************************************)
(* The parsed patch set                                                    *)
(***************************************************************************)
\* a line number is an int or None: <<n>> or <<>>
None == <<>>
Int1(n) == <<n>>
isinstance_int(x) == Len(x) = 1

is_removed(diff_line) == diff_line.line_type = "-"
is_added(diff_line) == diff_line.line_type = "+"
is_context(diff_line) == diff_line.line_type = " "

Op(t, v) == [line_type |-> t, value |-> v]

\* the running line counters of the parser: 1-based, a context or removed
\* line advances the source counter, a context or added line the target one
NumberLines(ops) ==
    [i \in 1..Len(ops) |->
        [line_type |-> ops[i].line_type,
         value |-> ops[i].value,
         source_line_no |->
            IF ops[i].line_type = "+" THEN None
            ELSE Int1(1 + Cardinality({j \in 1..(i-1) : ops[j].line_type # "+"})),
         target_line_no |->
            IF ops[i].line_type = "-" THEN None
            ELSE Int1(1 + Cardinality({j \in 1..(i-1) : ops[j].line_type # "-"}))]]

HasChange(hunk) == \E i \in 1..Len(hunk) : ~is_context(hunk[i])

\* the hunks of a numbered edit script: the context lines in omit are not
\* part of the diff and separate the hunks; a hunk holds a change
RECURSIVE SplitHunks(_, _, _, _)
SplitHunks(lines, omit, i, cur) ==
    LET done == IF HasChange(cur) THEN <<cur>> ELSE <<>> IN
    IF i > Len(lines) THEN done
    ELSE IF i \in omit THEN done \o SplitHunks(lines, omit, i + 1, <<>>)
    ELSE SplitHunks(lines, omit, i + 1, Append(cur, lines[i]))

Hunks(ops, omit) == SplitHunks(NumberLines(ops), omit, 1, <<>>)

ContextOf(ops) == {i \in 1..Len(ops) : ops[i].line_type = " "}
SourceOf(ops) == LET s == SelectSeq(ops, LAMBDA o : o.line_type # "+")
                 IN [i \in 1..Len(s) |-> s[i].value]
TargetOf(ops) == LET s == SelectSeq(ops, LAMBDA o : o.line_type # "-")
                 IN [i \in 1..Len(s) |-> s[i].value]

\* a patched file as apply_patch reads it
PatchedFile(p, t, kind, hs) ==
    [path |-> p, target_file |-> t,
     is_removed_file |-> kind = "Removed",
     is_rename |-> kind = "Renamed",
     is_added_file |-> kind = "Added",
     hunks |-> hs]

(***************************************************************************)
(* The content edit of apply_patch (lines 270-298)                         *)
(***************************************************************************)
Ok(ls) == [ok |-> TRUE, lines |-> ls]
IndexError == [ok |-> FALSE, lines |-> <<>>]

\* list.pop(i): a negative index counts from the end, an index outside the
\* list raises IndexError
pop(content, i) ==
    LET n == Len(content)
        j == IF i < 0 THEN i + n ELSE i
    IN IF j < 0 \/ j >= n THEN IndexError
       ELSE Ok(SubSeq(content, 1, j) \o SubSeq(content, j + 2, n))

\* list.insert(i, v): a negative index counts from the end, an index
\* outside the list is clamped to its ends; never raises
insert(content, i, v) ==
    LET n == Len(content)
        j == IF i < 0 THEN (IF i + n < 0 THEN 0 ELSE i + n)
             ELSE (IF i > n THEN n ELSE i)
    IN SubSeq(content, 1, j) \o <<v>> \o SubSeq(content, j + 1, n)

\* for hunk in reversed(list(patched_file)): for diff_line in reversed(hunk)
RemovalOrder_Forward(hunks) == Flatten(hunks)
RemovalOrder(hunks) == Reverse(Flatten(hunks))

\* for hunk in patched_file: for diff_line in hunk
AdditionOrder(hunks) == Flatten(hunks)

RECURSIVE remove_lines(_, _)
remove_lines(content, diff_lines) ==
    IF diff_lines = <<>> THEN Ok(content)
    ELSE LET diff_line == Head(diff_lines) IN
         IF is_removed(diff_line) /\ isinstance_int(diff_line.source_line_no)
         THEN LET r == pop(content, diff_line.source_line_no[1] - 1) IN
              IF r.ok THEN remove_lines(r.lines, Tail(diff_lines)) ELSE r
         ELSE remove_lines(content, Tail(diff_lines))

RECURSIVE add_lines(_, _)
add_lines(content, diff_lines) ==
    IF diff_lines = <<>> THEN content
    ELSE LET diff_line == Head(diff_lines) IN
         IF is_added(diff_line) /\ isinstance_int(diff_line.target_line_no)
         THEN add_lines(insert(content, diff_line.target_line_no[1] - 1,
                               diff_line.value),
                        Tail(diff_lines))
         ELSE add_lines(content, Tail(diff_lines))

\* original_content after both passes, or the IndexError of a pop
ContentEdit(original_content, hunks) ==
    LET r == remove_lines(original_content, RemovalOrder(hunks)) IN
    IF r.ok THEN Ok(add_lines(r.lines, AdditionOrder(hunks))) ELSE r

(***************************************************************************)
(* One iteration of the for loop of apply_patch (lines 229-302)            *)
(***************************************************************************)
Outcome(tree, status) == [tree |-> tree, status |-> status]

\* the branch "# remove" (lines 234-242)
RemovedFile_Keep(tree, p) ==
    IF exists(tree, p) THEN Outcome(tree, "removed")
    ELSE Outcome(tree, "skip_remove")
RemovedFile(tree, p) ==
    IF exists(tree, p) THEN Outcome(remove(tree, p), "removed")
    ELSE Outcome(tree, "skip_remove")

\* os.rename onto an existing file replaces it on posix and raises
\* FileExistsError on nt
RenameRaises(tree, dst, os) == exists(tree, dst) /\ os = "nt"

PatchOne(tree, patched_file, os) ==
    LET p == patched_file.path
        t == patched_file.target_file
    IN
    IF patched_file.is_removed_file THEN RemovedFile(tree, p)
    ELSE IF patched_file.is_rename /\ ~exists(tree, p)
         THEN Outcome(tree, "skip_rename")
    ELSE IF patched_file.is_rename /\ RenameRaises(tree, t, os)
         THEN Outcome(tree, "raise")
    ELSE LET t1 == IF patched_file.is_rename THEN rename(tree, p, t) ELSE tree
             current_file_path == IF patched_file.is_rename THEN t ELSE p
         IN
         IF ~exists(t1, current_file_path) /\ ~patched_file.is_added_file
         THEN Outcome(t1, "skip_missing")
         ELSE LET t2 == IF exists(t1, current_file_path) THEN t1
                        ELSE create(t1, current_file_path)
                  r == ContentEdit(t2[current_file_path].lines,
                                   patched_file.hunks)
              IN IF r.ok
                 THEN Outcome([t2 EXCEPT ![current_file_path] = File(r.lines)],
                              "patched")
                 ELSE Outcome(t2, "raise")

(***************************************************************************)
(* The manifest interface.json (lines 304-309).  A line of the manifest    *)
(* stands for one member of the JSON object; a line of Versions is the     *)
(* member "version" with that value.  The empty file is the text that      *)
(* json.load cannot decode.                                                *)
(***************************************************************************)
Key(l) == IF l \in Versions THEN "version" ELSE l

\* data[k] = v on a dict, which keeps the position of an existing key
RECURSIVE put(_, _, _)
put(data, k, v) ==
    IF data = <<>> THEN <<[key |-> k, val |-> v]>>
    ELSE IF Head(data).key = k THEN <<[key |-> k, val |-> v]>> \o Tail(data)
    ELSE <<Head(data)>> \o put(Tail(data), k, v)

RECURSIVE load_members(_, _)
load_members(data, ls) ==
    IF ls = <<>> THEN data
    ELSE load_members(put(data, Key(Head(ls)), Head(ls)), Tail(ls))

json_load(ls) == load_members(<<>>, ls)
json_dump(data) == [i \in 1..Len(data) |-> data[i].val]

\* open("interface.json", "r+") and json.load raise on these trees
ManifestRaises(tree) == ~exists(tree, Manifest) \/ tree[Manifest].lines = <<>>

\* data["version"] = self.latest_version; json.dump; truncate
WriteVersion(tree, latest) ==
    [tree EXCEPT ![Manifest] =
        File(json_dump(put(json_load(tree[Manifest].lines), "version", latest)))]

\* the version field of the manifest, "none" when it has none
VersionField(tree) ==
    IF ManifestRaises(tree) THEN "none"
    ELSE LET data == json_load(tree[Manifest].lines)
             I == {i \in 1..Len(data) : data[i].key = "version"}
         IN IF I = {} THEN "none" ELSE data[CHOOSE i \in I : TRUE].val

(***************************************************************************)
(* apply_patch as a process                                                *)
(***************************************************************************)
Current == patchset[idx]
InLoop == pc = "loop" /\ idx <= Len(patchset)
Step == PatchOne(fs, Current, os_name)

\* lines 215-228: read and parse the patch file
ApplyStart ==
    /\ pc = "ready"
    /\ pc' = "loop"
    /\ idx' = 1
    /\ run' = run + 1
    /\ fs0' = fs
    /\ failedAt' = 0
    /\ result' = "none"
    /\ UNCHANGED <<fs, patchset, latest_version, os_name, expected>>
    /\ UNCHANGED <<clVars, diffVars, current_version>>

\* the loop goes on with the next patched_file
Advance ==
    /\ fs' = Step.tree
    /\ idx' = idx + 1
    /\ UNCHANGED <<patchset, latest_version, os_name, pc, result, run, fs0,
                   failedAt, expected>>
    /\ UNCHANGED <<clVars, diffVars, current_version>>

\* lines 234-237, 242: the file is removed
RemoveFile ==
    /\ InLoop
    /\ Step.status = "removed"
    /\ Advance

\* lines 238-242: the file to remove is absent
SkipRemove ==
    /\ InLoop
    /\ Step.status = "skip_remove"
    /\ Advance

\* lines 251-255: the file to rename is absent
SkipRename ==
    /\ InLoop
    /\ Step.status = "skip_rename"
    /\ Advance

\* lines 264-268: the file to edit is absent and not an added file
SkipMissing ==
    /\ InLoop
    /\ Step.status = "skip_missing"
    /\ Advance

\* lines 245-250, 256-263, 270-302: rename, create, edit and write back
PatchFile ==
    /\ InLoop
    /\ Step.status = "patched"
    /\ Advance

\* lines 312-316: an exception of the loop body ends the call
Raise_Continue ==
    /\ InLoop
    /\ Step.status = "raise"
    /\ fs' = Step.tree
    /\ failedAt' = idx
    /\ idx' = idx + 1
    /\ UNCHANGED <<patchset, latest_version, os_name, pc, result, run, fs0,
                   expected>>
    /\ UNCHANGED <<clVars, diffVars, current_version>>
Raise ==
    /\ InLoop
    /\ Step.status = "raise"
    /\ fs' = Step.tree
    /\ failedAt' = idx
    /\ pc' = "done"
    /\ result' = "False"
    /\ UNCHANGED <<patchset, latest_version, os_name, idx, run, fs0, expected>>
    /\ UNCHANGED <<clVars, diffVars, current_version>>

\* lines 304-311
UpdateInterface ==
    /\ pc = "loop"
    /\ idx > Len(patchset)
    /\ ~ManifestRaises(fs)
    /\ fs' = WriteVersion(fs, latest_version)
    /\ pc' = "done"
    /\ result' = "True"
    /\ UNCHANGED <<patchset, latest_version, os_name, idx, run, fs0, failedAt,
                   expected>>
    /\ UNCHANGED <<clVars, diffVars, current_version>>

\* lines 304-305, 312-316: the manifest is missing or undecodable
UpdateInterfaceError ==
    /\ pc = "loop"
    /\ idx > Len(patchset)
    /\ ManifestRaises(fs)
    /\ pc' = "done"
    /\ result' = "False"
    /\ failedAt' = idx
    /\ UNCHANGED <<fs, patchset, latest_version, os_name, idx, run, fs0,
                   expected>>
    /\ UNCHANGED <<clVars, diffVars, current_version>>

\* the caller runs apply_patch again on the same patch file
Rerun ==
    /\ pc = "done"
    /\ run < MaxRuns
    /\ pc' = "ready"
    /\ UNCHANGED <<fs, patchset, latest_version, os_name, idx, result, run,
                   fs0, failedAt, expected>>
    /\ UNCHANGED <<clVars, diffVars, current_version>>

(***************************************************************************)
(* generate_changelog (lines 154-173)                                      *)
(***************************************************************************)
\* response.json() of the request for one page of the release feed
PageOf(n) ==
    LET first == (n - 1) * per_page + 1
        last == IF n * per_page < Len(releases) THEN n * per_page
                ELSE Len(releases)
    IN SubSeq(releases, first, last)

\* f"# {tag['tag_name']}:\n\n{tag['body']}\n"
Entry(tag) == [tag_name |-> tag.tag_name, body |-> tag.body]

\* the for loop over the tags of one page (lines 166-172)
RECURSIVE WalkPage_AppendFirst(_, _, _)
WalkPage_AppendFirst(tags, logs, flag) ==
    IF tags = <<>> THEN [changelogs |-> logs, start_flag |-> flag, found |-> FALSE]
    ELSE LET tag == Head(tags) IN
         IF ~flag /\ tag.prerelease /\ ~prerelease
         THEN WalkPage_AppendFirst(Tail(tags), logs, flag)
         ELSE IF tag.tag_name = current_version
         THEN [changelogs |-> Append(logs, Entry(tag)), start_flag |-> flag,
               found |-> TRUE]
         ELSE WalkPage_AppendFirst(Tail(tags), Append(logs, Entry(tag)), TRUE)

RECURSIVE WalkPage(_, _, _)
WalkPage(tags, logs, flag) ==
    IF tags = <<>> THEN [changelogs |-> logs, start_flag |-> flag, found |-> FALSE]
    ELSE LET tag == Head(tags) IN
         IF tag.tag_name = current_version
         THEN [changelogs |-> logs, start_flag |-> flag, found |-> TRUE]
         ELSE IF ~flag /\ tag.prerelease /\ ~prerelease
         THEN WalkPage(Tail(tags), logs, flag)
         ELSE WalkPage(Tail(tags), Append(logs, Entry(tag)), TRUE)

Walk == WalkPage(PageOf(page), changelogs, start_flag)

\* "\n".join(changelogs): the entries in order
Joined(logs) == [kind |-> "entries", entries |-> logs]
\* the text "Invaild tag! Please redownload in ..."
InvalidTag == [kind |-> "invalid", entries |-> <<>>]

Requesting == cl_pc = "walk" /\ page <= LastPage

\* lines 164-165: the page is empty
ChangelogInvalid ==
    /\ Requesting
    /\ PageOf(page) = <<>>
    /\ changelog' = InvalidTag
    /\ cl_pc' = "done"
    /\ UNCHANGED <<releases, prerelease, per_page, page, changelogs, start_flag>>
    /\ UNCHANGED <<applyVars, diffVars, current_version>>

\* lines 166-168: the tag of the current version is on the page
ChangelogFound ==
    /\ Requesting
    /\ PageOf(page) # <<>>
    /\ Walk.found
    /\ changelogs' = Walk.changelogs
    /\ start_flag' = Walk.start_flag
    /\ changelog' = Joined(Walk.changelogs)
    /\ cl_pc' = "done"
    /\ UNCHANGED <<releases, prerelease, per_page, page>>
    /\ UNCHANGED <<applyVars, diffVars, current_version>>

\* lines 160-172: the page is walked to its end, the next page is requested
ChangelogNextPage ==
    /\ Requesting
    /\ PageOf(page) # <<>>
    /\ ~Walk.found
    /\ changelogs' = Walk.changelogs
    /\ start_flag' = Walk.start_flag
    /\ page' = page + 1
    /\ UNCHANGED <<releases, prerelease, per_page, changelog, cl_pc>>
    /\ UNCHANGED <<applyVars, diffVars, current_version>>

\* line 173: the last page has been walked
ChangelogExhausted ==
    /\ cl_pc = "walk"
    /\ page > LastPage
    /\ changelog' = Joined(changelogs)
    /\ cl_pc' = "done"
    /\ UNCHANGED <<releases, prerelease, per_page, page, changelogs, start_flag>>
    /\ UNCHANGED <<applyVars, diffVars, current_version>>

(***************************************************************************)
(* process_diff_content (lines 192-209).  A text is its sequence of        *)
(* characters.                                                             *)
(***************************************************************************)
ASSETS == <<"a", "s", "s", "e", "t", "s", "/">>
NL == "\n"

\* str.replace(old, ""): the occurrences of old, left to right, not
\* overlapping, are dropped
RECURSIVE replace(_, _)
replace(text, old) ==
    IF Len(text) < Len(old) THEN text
    ELSE IF SubSeq(text, 1, Len(old)) = old
    THEN replace(SubSeq(text, Len(old) + 1, Len(text)), old)
    ELSE <<Head(text)>> \o replace(Tail(text), old)

\* lines 198-206: the diff is normalised and written
ProcessDiff ==
    /\ diff_pc = "ready"
    /\ patch_file' = replace(diff_content, ASSETS)
    /\ diff_filename' = <<current_version, latest_version>>
    /\ diff_ok' = "True"
    /\ diff_pc' = "done"
    /\ UNCHANGED diff_content
    /\ UNCHANGED <<applyVars, clVars, current_version>>

\* lines 199-204, 207-209: opening or writing the patch file fails
ProcessDiffError ==
    /\ diff_pc = "ready"
    /\ diff_filename' = <<current_version, latest_version>>
    /\ diff_ok' = "False"
    /\ diff_pc' = "done"
    /\ UNCHANGED <<diff_content, patch_file>>
    /\ UNCHANGED <<applyVars, clVars, current_version>>

(***************************************************************************)
(* Initial states                                                          *)
(***************************************************************************)
ApplyIdle ==
    /\ fs = [p \in Paths |-> NoFile]
    /\ patchset = <<>>
    /\ latest_version = "v2"
    /\ os_name = "posix"
    /\ pc = "off"
    /\ idx = 0
    /\ result = "none"
    /\ run = 0
    /\ fs0 = [p \in Paths |-> NoFile]
    /\ failedAt = 0
    /\ expected = <<>>

ChangelogIdle ==
    /\ releases = <<>>
    /\ prerelease = FALSE
    /\ per_page = 1
    /\ page = 0
    /\ changelogs = <<>>
    /\ start_flag = FALSE
    /\ changelog = [kind |-> "none", entries |-> <<>>]
    /\ cl_pc = "off"

DiffIdle ==
    /\ diff_content = <<>>
    /\ patch_file = <<>>
    /\ diff_filename = <<"current", "latest">>
    /\ diff_pc = "off"
    /\ diff_ok = "none"

\* the manifest read_interface has read: decodable, version v1
Manifest0 == File(<<"a", "v1">>)

\* edit scripts of the diffs fed to apply_patch
ReplaceSecond == <<Op(" ", "a"), Op("-", "v1"), Op("+", "v2")>>
DeleteFirst == <<Op("-", "a")>>
AppendThird == <<Op(" ", "a"), Op(" ", "b"), Op("+", "b")>>
NewFile == <<Op("+", "a"), Op("+", "b")>>
EditScripts == {ReplaceSecond, DeleteFirst, AppendThird}

Removed(P) == {PatchedFile(p, p, "Removed", Hunks(DeleteFirst, {})) : p \in P}

FilePatches ==
    {PatchedFile(p, p, "Modified", Hunks(e, {})) : p \in Paths, e \in EditScripts}
    \cup {PatchedFile("g", "g", "Added", Hunks(NewFile, {}))}
    \cup Removed({"f", "g"})
    \cup {PatchedFile(m[1], m[2], "Renamed", h) :
            m \in {<<"f", "g">>, <<"g", "f">>},
            h \in {<<>>, Hunks(DeleteFirst, {})}}

Trees ==
    {[p \in Paths |-> IF p = "f" THEN f ELSE IF p = "g" THEN g ELSE Manifest0] :
        f \in {NoFile, File(<<"a">>), File(<<"a", "b">>)},
        g \in {NoFile, File(<<"a", "b">>)}}

ApplyReady ==
    /\ latest_version = "v2"
    /\ current_version = "v1"
    /\ pc = "ready"
    /\ idx = 0
    /\ result = "none"
    /\ run = 0
    /\ fs0 = fs
    /\ failedAt = 0

\* apply_patch on a tree and a patch set
Init ==
    /\ fs \in Trees
    /\ patchset \in SeqsUpTo(FilePatches, MaxPatches)
    /\ os_name \in {"posix", "nt"}
    /\ expected = <<>>
    /\ ApplyReady
    /\ ChangelogIdle
    /\ DiffIdle

Next ==
    \/ ApplyStart
    \/ RemoveFile
    \/ SkipRemove
    \/ SkipRename
    \/ SkipMissing
    \/ PatchFile
    \/ Raise
    \/ UpdateInterface
    \/ UpdateInterfaceError

Spec == Init /\ [][Next]_vars

\* apply_patch run repeatedly on a patch set of removed files
InitRerun ==
    /\ fs \in Trees
    /\ patchset \in SeqsUpTo(Removed(Paths), MaxPatches)
    /\ os_name \in {"posix", "nt"}
    /\ expected = <<>>
    /\ ApplyReady
    /\ ChangelogIdle
    /\ DiffIdle

NextRerun ==
    \/ ApplyStart
    \/ RemoveFile
    \/ SkipRemove
    \/ UpdateInterface
    \/ UpdateInterfaceError
    \/ Rerun

SpecRerun == InitRerun /\ [][NextRerun]_vars

\* apply_patch on a file F and the diff of F against F'
OpSet == {Op(t, v) : t \in {" ", "-", "+"}, v \in {"a", "b"}}

InitRoundTrip ==
    /\ \E ops \in SeqsUpTo(OpSet, MaxOps) : \E omit \in SUBSET ContextOf(ops) :
          /\ fs = [p \in Paths |-> IF p = "f" THEN File(SourceOf(ops))
                                   ELSE IF p = "g" THEN NoFile ELSE Manifest0]
          /\ patchset = <<PatchedFile("f", "f", "Modified", Hunks(ops, omit))>>
          /\ expected = TargetOf(ops)
    /\ os_name = "posix"
    /\ ApplyReady
    /\ ChangelogIdle
    /\ DiffIdle

NextRoundTrip ==
    \/ ApplyStart
    \/ PatchFile
    \/ UpdateInterface

SpecRoundTrip == InitRoundTrip /\ [][NextRoundTrip]_vars

(***************************************************************************)
(* What a diff means, stated without the edit procedure                    *)
(***************************************************************************)
RemovedNos(hunks) ==
    LET ls == Flatten(hunks)
    IN {ls[i].source_line_no[1] : i \in {j \in 1..Len(ls) : is_removed(ls[j])}}
AddedNos(hunks) ==
    LET ls == Flatten(hunks)
    IN {ls[i].target_line_no[1] : i \in {j \in 1..Len(ls) : is_added(ls[j])}}

\* the k-th smallest element of a set of numbers
Nth(S, k) == CHOOSE x \in S : Cardinality({y \in S : y < x}) = k - 1

\* the diff lines of `hunks` fit the file F: removed and context lines name
\* lines of F with that text, line numbers increase, added lines fall inside
\* the resulting file
WellFormed(F, hunks) ==
    LET ls == Flatten(hunks)
        newLen == Len(F) - Cardinality(RemovedNos(hunks))
                         + Cardinality(AddedNos(hunks))
    IN /\ \A i \in 1..Len(ls) :
            /\ ~is_added(ls[i]) =>
                  /\ ls[i].source_line_no[1] \in 1..Len(F)
                  /\ F[ls[i].source_line_no[1]] = ls[i].value
            /\ ~is_removed(ls[i]) => ls[i].target_line_no[1] \in 1..newLen
       /\ \A i, j \in 1..Len(ls) :
            i < j =>
              /\ (~is_added(ls[i]) /\ ~is_added(ls[j]))
                    => ls[i].source_line_no[1] < ls[j].source_line_no[1]
              /\ (~is_removed(ls[i]) /\ ~is_removed(ls[j]))
                    => ls[i].target_line_no[1] < ls[j].target_line_no[1]

\* the file the diff describes: the added lines at their target numbers,
\* the lines of F that are not removed, in order, at the other positions
Patched(F, hunks) ==
    LET ls == Flatten(hunks)
        Rm == RemovedNos(hunks)
        Ad == AddedNos(hunks)
        Keep == (1..Len(F)) \ Rm
        newLen == Cardinality(Keep) + Cardinality(Ad)
        addedAt(t) == ls[CHOOSE i \in 1..Len(ls) :
                            is_added(ls[i]) /\ ls[i].target_line_no[1] = t].value
    IN [t \in 1..newLen |->
          IF t \in Ad THEN addedAt(t)
          ELSE F[Nth(Keep, t - Cardinality({a \in Ad : a < t}))]]

\* the tree after the first k patched files, each processed in turn
RECURSIVE ApplyPrefix(_, _)
ApplyPrefix(tree, k) ==
    IF k = 0 THEN tree
    ELSE PatchOne(ApplyPrefix(tree, k - 1), patchset[k], os_name).tree

Named(patched_file) == {patched_file.path, patched_file.target_file}

(***************************************************************************)
(* C1  Round trip: the content edit of apply_patch on a file F with the    *)
(* diff of F against F' leaves exactly F' in the file.                     *)
(***************************************************************************)
C1_RoundTrip == idx = 2 => fs["f"] = File(expected)

C1_Witness ==
    /\ pc = "done"
    /\ result = "True"
    /\ Len(patchset[1].hunks) = 2
    /\ Cardinality(RemovedNos(patchset[1].hunks)) = 2
    /\ AddedNos(patchset[1].hunks) # {}
    /\ fs0["f"].lines # expected
    /\ fs["f"].lines = expected

(***************************************************************************)
(* C2  A call of apply_patch that reports failure leaves the version       *)
(* field of the manifest as it was before the call.                        *)
(***************************************************************************)
C2_VersionKeptOnFailure ==
    (pc = "done" /\ result = "False") => VersionField(fs) = VersionField(fs0)

(***************************************************************************)
(* C3  apply_patch processes the patched files in patch-set order and      *)
(* aborts at the first one that raises: the call is over with failure,     *)
(* the files of the earlier patched files keep their applied result and    *)
(* no file of a later patched file is touched.                             *)
(***************************************************************************)
C3_AbortAtFirstError ==
    /\ (pc = "loop" /\ failedAt = 0) => fs = ApplyPrefix(fs0, idx - 1)
    /\ failedAt \in 1..Len(patchset) =>
          /\ pc = "done"
          /\ result = "False"
          /\ idx = failedAt
          /\ \A p \in Paths \ Named(patchset[failedAt]) :
                fs[p] = ApplyPrefix(fs0, failedAt - 1)[p]

C3_Witness ==
    /\ pc = "done"
    /\ result = "False"
    /\ Len(patchset) = 2
    /\ failedAt = 1
    /\ Named(patchset[2]) \cap Named(patchset[1]) = {}
    /\ PatchOne(fs, patchset[2], os_name).tree # fs

(***************************************************************************)
(* C4  A Modified patched file whose file does not exist makes             *)
(* apply_patch abort with a failure result.                                *)
(***************************************************************************)
IsModified(patched_file) ==
    /\ ~patched_file.is_removed_file
    /\ ~patched_file.is_rename
    /\ ~patched_file.is_added_file

\* C4: a Modified patched file without its file ends the call with failure
C4_MissingFileAborts ==
    [][(InLoop /\ IsModified(Current) /\ ~exists(fs, Current.path))
          => (pc' = "done" /\ result' = "False")]_vars

(***************************************************************************)
(* C5  A removed or added line whose number is outside the line sequence   *)
(* at the moment it is deleted or inserted makes apply_patch report        *)
(* failure.                                                                *)
(***************************************************************************)
\* the iteration reaches the content edit
ReachesEdit ==
    /\ InLoop
    /\ ~Current.is_removed_file
    /\ Current.is_rename => (exists(fs, Current.path)
                             /\ ~RenameRaises(fs, Current.target_file, os_name))
    /\ ~Current.is_rename => (exists(fs, Current.path) \/ Current.is_added_file)

\* the line sequence the content edit loads
EditInput == fs[Current.path].lines

\* some deletion position is < 1 or > the current length, or some insertion
\* position is < 1 or > the current length + 1
OutOfRange(content, hunks) ==
    LET rs == SelectSeq(Reverse(Flatten(hunks)), is_removed)
        as == SelectSeq(Flatten(hunks), is_added)
        n == Len(content)
    IN \/ \E i \in 1..Len(rs) :
            \/ rs[i].source_line_no[1] < 1
            \/ rs[i].source_line_no[1] > n - (i - 1)
       \/ \E j \in 1..Len(as) :
            \/ as[j].target_line_no[1] < 1
            \/ as[j].target_line_no[1] > (n - Len(rs) + (j - 1)) + 1

\* C5: an out-of-range deletion or insertion ends the call with failure
C5_OutOfRangeAborts ==
    [][(ReachesEdit /\ OutOfRange(EditInput, Current.hunks))
          => (pc' = "done" /\ result' = "False")]_vars

(***************************************************************************)
(* C6  A Renamed patched file with hunks whose source is absent and whose  *)
(* file is already at the target path: the rename is skipped and the       *)
(* hunks are applied to the file at the target path.                       *)
(***************************************************************************)
C6_SkippedRenameStillEdits ==
    [][(/\ InLoop
        /\ Current.is_rename
        /\ Current.hunks # <<>>
        /\ ~exists(fs, Current.path)
        /\ exists(fs, Current.target_file)
        /\ WellFormed(fs[Current.target_file].lines, Current.hunks))
          => (/\ pc' = "loop"
              /\ idx' = idx + 1
              /\ fs'[Current.target_file] =
                    File(Patched(fs[Current.target_file].lines, Current.hunks)))]_vars

(***************************************************************************)
(* C7  A Renamed patched file from S to T with one hunk, on a tree where   *)
(* S exists and T does not: afterwards S does not exist and T holds the    *)
(* original content of S with the hunk applied.                            *)
(***************************************************************************)
RenameCase(tree, patched_file) ==
    /\ patched_file.is_rename
    /\ patched_file.path # patched_file.target_file
    /\ Len(patched_file.hunks) = 1
    /\ exists(tree, patched_file.path)
    /\ ~exists(tree, patched_file.target_file)
    /\ WellFormed(tree[patched_file.path].lines, patched_file.hunks)

RenameDone(before, after, patched_file) ==
    /\ ~exists(after, patched_file.path)
    /\ after[patched_file.target_file] =
          File(Patched(before[patched_file.path].lines, patched_file.hunks))

RemovedStep ==
    (InLoop /\ Current.is_removed_file)
        => (/\ fs' = remove(fs, Current.path)
            /\ pc' = "loop"
            /\ idx' = idx + 1)

TwiceSucceeds ==
    /\ pc = "done" => result = "True"
    /\ (pc = "done" /\ run >= 2) => fs = fs0

NamesManifest == \E i \in 1..Len(patchset) : Manifest \in Named(patchset[i])

Tag(i) == "v" \o ToString(i)
Tags == {Tag(i) : i \in 1..MaxReleases}

Distinct(seq) == \A i, j \in 1..Len(seq) : i # j => seq[i] # seq[j]

Feeds ==
    {[i \in 1..Len(ts) |-> [tag_name |-> ts[i], prerelease |-> pre[i],
                            body |-> "notes " \o ts[i]]] :
        ts \in {t \in SeqsUpTo(Tags, MaxReleases) : Distinct(t)},
        pre \in [1..MaxReleases -> BOOLEAN]}

InitChangelog ==
    /\ releases \in Feeds
    /\ current_version \in Tags \cup {"v0"}
    /\ prerelease \in BOOLEAN
    /\ per_page \in 1..MaxPerPage
    /\ page = 1
    /\ changelogs = <<>>
    /\ start_flag = FALSE
    /\ changelog = [kind |-> "none", entries |-> <<>>]
    /\ cl_pc = "walk"
    /\ ApplyIdle
    /\ DiffIdle

NextChangelog ==
    \/ ChangelogInvalid
    \/ ChangelogFound
    \/ ChangelogNextPage
    \/ ChangelogExhausted

SpecChangelog == InitChangelog /\ [][NextChangelog]_vars

(***************************************************************************)
(* process_diff_content on a fetched diff of one file                      *)
(***************************************************************************)
Segments == {ASSETS, <<"r", "e", "s">>, <<"x">>}
Texts == {Flatten(ss) : ss \in SeqsUpTo(Segments, MaxSegs)}

SourceHeader(path) == <<"-", "-", "-", " ", "a", "/">> \o path
TargetHeader(path) == <<"+", "+", "+", " ", "b", "/">> \o path
HunkHeader == <<"@", "@">>
BodyLines == {<<m>> \o t : m \in {" ", "-", "+"}, t \in Texts}

RECURSIVE JoinLines(_)
JoinLines(ls) == IF ls = <<>> THEN <<>> ELSE Head(ls) \o <<NL>> \o JoinLines(Tail(ls))

\* str.splitlines of a text whose lines all end in a newline
RECURSIVE SplitLines(_, _)
SplitLines(text, cur) ==
    IF text = <<>> THEN (IF cur = <<>> THEN <<>> ELSE <<cur>>)
    ELSE IF Head(text) = NL THEN <<cur>> \o SplitLines(Tail(text), <<>>)
    ELSE SplitLines(Tail(text), Append(cur, Head(text)))

InitDiff ==
    /\ \E path \in Texts \ {<<>>} : \E body \in SeqsUpTo(BodyLines, MaxBody) :
          diff_content = JoinLines(<<SourceHeader(path), TargetHeader(path),
                                     HunkHeader>> \o body)
    /\ patch_file = <<>>
    /\ diff_filename = <<"current", "latest">>
    /\ diff_pc = "ready"
    /\ diff_ok = "none"
    /\ current_version = "v1"
    /\ ApplyIdle
    /\ ChangelogIdle

NextDiff ==
    \/ ProcessDiff
    \/ ProcessDiffError

SpecDiff == InitDiff /\ [][NextDiff]_vars

(***************************************************************************)
(* C9  generate_changelog stops at the first release whose tag is the      *)
(* current version: the changelog holds entries only of releases strictly  *)
(* before that release, in list order, never the entry of the current      *)
(* version or of a release after it.                                       *)
(***************************************************************************)
CurrentAt == {i \in 1..Len(releases) : releases[i].tag_name = current_version}
FirstCurrent == CHOOSE k \in CurrentAt : \A j \in CurrentAt : k <= j
PosOf(e) == {j \in 1..Len(releases) : Entry(releases[j]) = e}

\* C9: only entries of releases before the current version, in list order
C9_ChangelogStopsAtCurrent ==
    (cl_pc = "done" /\ CurrentAt # {}) =>
        /\ \A i \in 1..Len(changelog.entries) :
              \E j \in PosOf(changelog.entries[i]) : j < FirstCurrent
        /\ \A i, j \in 1..Len(changelog.entries) :
              i < j => \E m \in PosOf(changelog.entries[i]) :
                       \E n \in PosOf(changelog.entries[j]) : m < n
        /\ FirstCurrent <= LastPage * per_page =>
              /\ changelog.kind = "entries"
              /\ page = ((FirstCurrent - 1) \div per_page) + 1

C9_Witness ==
    /\ cl_pc = "done"
    /\ Len(releases) = 3
    /\ CurrentAt # {}
    /\ FirstCurrent = 2
    /\ page = 2
    /\ Len(changelog.entries) = 1

(***************************************************************************)
(* C10  The normalised diff differs from the fetched diff only in its      *)
(* path headers: every hunk body line is the same line in both.            *)
(***************************************************************************)
StartsWith(line, prefix) ==
    Len(line) >= Len(prefix) /\ SubSeq(line, 1, Len(prefix)) = prefix

\* the lines after the hunk header
BodyIndexes(ls) ==
    {i \in 1..Len(ls) : \E h \in 1..(i - 1) : StartsWith(ls[h], HunkHeader)}

\* C10: every hunk body line is written as it was fetched
C10_BodyLinesUntouched ==
    (diff_pc = "done" /\ diff_ok = "True") =>
        LET fetched == SplitLines(diff_content, <<>>)
            written == SplitLines(patch_file, <<>>)
        IN /\ Len(written) = Len(fetched)
           /\ \A i \in BodyIndexes(fetched) : written[i] = fetched[i]

====
